---- MODULE Spec2Model ----
(***************************************************************************)
(* Slotted page of novadb-lite: a PAGE_SIZE byte buffer holding a 16-byte  *)
(* header, a slot directory growing upward and a tuple area growing        *)
(* downward.  The buffer is the state; every operation of SlottedPage is   *)
(* an operator on the buffer, and one action of the state machine.         *)
(***************************************************************************)
EXTENDS Integers, Sequences, FiniteSets, TLC

\* ------------------------------------------------------------------------
\* Program constants
\* ------------------------------------------------------------------------
PAGE_SIZE == 4096
SLOTTED_HEADER_SIZE == 16
SLOTTED_SLOT_SIZE == 6

OFF_LOWER == 0
OFF_UPPER == 2
OFF_SLOT_COUNT == 4
OFF_FLAGS == 6
OFF_RESERVED == 8

OFF_SLOT_OFFSET == 0
OFF_SLOT_LEN == 2
OFF_SLOT_FLAGS == 4

PAGE_TYPE_HEAP == 0
PAGE_TYPE_BTREE_LEAF == 1
FLAG_HAS_FREE_SLOTS_BIT == 4
FLAG_HAS_FREE_SLOTS == 2 ^ FLAG_HAS_FREE_SLOTS_BIT
SLOT_DEAD == 1

U16_MAX == 65535

\* ------------------------------------------------------------------------
\* Bounds of the model
\* ------------------------------------------------------------------------
\* Number of operations applied to the page after init.
MaxOps == 5
\* Payload lengths the caller passes to insert and update: empty, short, and
\* one that leaves 3 free bytes on an empty page.
DataLens == {0, 3, 4071}
\* Payload lengths around the u16 limit, passed to insert.
BigLens == {65529, 65530, 65536}
\* Page types passed to init.
PageTypes == {PAGE_TYPE_BTREE_LEAF}

\* ------------------------------------------------------------------------
\* u16 bit operations (Rust's &, | and ! on u16)
\* ------------------------------------------------------------------------
RECURSIVE BitAnd(_, _)
BitAnd(a, b) ==
    IF a = 0 \/ b = 0 THEN 0
    ELSE (a % 2) * (b % 2) + 2 * BitAnd(a \div 2, b \div 2)

RECURSIVE BitOr(_, _)
BitOr(a, b) ==
    IF a = 0 THEN b
    ELSE IF b = 0 THEN a
    ELSE (IF a % 2 = 1 \/ b % 2 = 1 THEN 1 ELSE 0) + 2 * BitOr(a \div 2, b \div 2)

BitNot16(a) == U16_MAX - a

\* ------------------------------------------------------------------------
\* A payload (&[u8]) is given by its length and the byte it starts with:
\* byte i of the payload is (seed + i) mod 256.
\* ------------------------------------------------------------------------
DataAt(d, i) == (d.seed + i) % 256
Bytes(d) == [i \in 1..d.len |-> DataAt(d, i - 1)]

\* ------------------------------------------------------------------------
\* raw.rs: bounds-checked little-endian codec.  A buffer is a sequence of
\* bytes; the byte at offset off is b[off + 1].
\* ------------------------------------------------------------------------
\* (mutant) a range that ends exactly at the end of the buffer is refused
checked_range_strict(len, off, size) == ~(off > len \/ size > len \/ off + size >= len)

checked_range(len, off, size) == ~(off > len \/ size > len \/ off + size > len)

read_u16_le(b, off) == b[off + 1] + 256 * b[off + 2]

write_u16_le(b, off, v) ==
    [b EXCEPT ![off + 1] = v % 256, ![off + 2] = v \div 256]

\* A u64 is held as its eight little-endian bytes (v.to_le_bytes()).
U64Zero == <<0, 0, 0, 0, 0, 0, 0, 0>>

read_u64_le(b, off) == [i \in 1..8 |-> b[off + i]]

write_u64_le(b, off, v) ==
    SubSeq(b, 1, off) \o v \o SubSeq(b, off + 9, Len(b))

\* ------------------------------------------------------------------------
\* header.rs
\* ------------------------------------------------------------------------
lower(b) == read_u16_le(b, OFF_LOWER)
upper(b) == read_u16_le(b, OFF_UPPER)
slot_count(b) == read_u16_le(b, OFF_SLOT_COUNT)
flags(b) == read_u16_le(b, OFF_FLAGS)
reserved(b) == read_u64_le(b, OFF_RESERVED)

set_lower(b, v) == write_u16_le(b, OFF_LOWER, v)
set_upper(b, v) == write_u16_le(b, OFF_UPPER, v)
\* (mutant) the slot count is never written back
set_slot_count_skipped(b, v) == b

set_slot_count(b, v) == write_u16_le(b, OFF_SLOT_COUNT, v)
set_flags(b, v) == write_u16_le(b, OFF_FLAGS, v)
set_reserved(b, v) == write_u64_le(b, OFF_RESERVED, v)

\* (mutant) assigns the mask instead of or-ing it in
set_flag_assign(f, mask) == mask

set_flag(f, mask) == BitOr(f, mask)
clear_flag(f, mask) == BitAnd(f, BitNot16(mask))

\* (mutant) only the page-type bits of the old flags are replaced
init_empty_keep_flags(b, page_type) ==
    set_reserved(
        set_flags(
            set_slot_count(
                set_upper(set_lower(b, SLOTTED_HEADER_SIZE), PAGE_SIZE),
                0),
            BitOr(BitAnd(flags(b), BitNot16(15)), BitAnd(page_type, 15))),
        U64Zero)

init_empty(b, page_type) ==
    set_reserved(
        set_flags(
            set_slot_count(
                set_upper(set_lower(b, SLOTTED_HEADER_SIZE), PAGE_SIZE),
                0),
            BitAnd(page_type, 15)),
        U64Zero)

\* ------------------------------------------------------------------------
\* slot.rs
\* ------------------------------------------------------------------------
slot_off(slot_id) == SLOTTED_HEADER_SIZE + slot_id * SLOTTED_SLOT_SIZE

\* current_pos: TRUE when the slot entry lies inside the buffer.
current_pos_ok(b, slot_id) == ~(slot_off(slot_id) + SLOTTED_SLOT_SIZE > Len(b))

read_slot(b, slot_id) ==
    [offset |-> read_u16_le(b, slot_off(slot_id) + OFF_SLOT_OFFSET),
     len    |-> read_u16_le(b, slot_off(slot_id) + OFF_SLOT_LEN),
     flags  |-> read_u16_le(b, slot_off(slot_id) + OFF_SLOT_FLAGS)]

\* (mutant) offset and len written to each other's field
write_slot_swapped(b, slot_id, s) ==
    write_u16_le(
        write_u16_le(
            write_u16_le(b, slot_off(slot_id) + OFF_SLOT_OFFSET, s.len),
            slot_off(slot_id) + OFF_SLOT_LEN, s.offset),
        slot_off(slot_id) + OFF_SLOT_FLAGS, s.flags)

write_slot(b, slot_id, s) ==
    write_u16_le(
        write_u16_le(
            write_u16_le(b, slot_off(slot_id) + OFF_SLOT_OFFSET, s.offset),
            slot_off(slot_id) + OFF_SLOT_LEN, s.len),
        slot_off(slot_id) + OFF_SLOT_FLAGS, s.flags)

is_dead(f) == BitAnd(f, SLOT_DEAD) # 0

\* Slot::mark_flags_dead: sets bit 0 (DEAD) of the slot's flags.
mark_flags_dead(s) == [s EXCEPT !.flags = BitOr(s.flags, SLOT_DEAD)]

\* ------------------------------------------------------------------------
\* slotted_page.rs.  Every operation returns [res, buf, ret]: the DbResult
\* kind ("Ok", "Corruption", "NoSpace", "InvalidArgument", or "Panic" for an
\* out-of-range slice index), the buffer it leaves, and the value returned.
\* ------------------------------------------------------------------------
NoRet == [none |-> TRUE]

Err(kind, b) == [res |-> kind, buf |-> b, ret |-> NoRet]

\* (mutant) the region is reserved but the payload is not copied into it
copy_from_slice_skipped(b, from, to, d) == b

\* buf[from..to].copy_from_slice(data), data.len() = to - from
copy_from_slice(b, from, to, d) ==
    SubSeq(b, 1, from) \o Bytes(d) \o SubSeq(b, to + 1, Len(b))

\* (mutant) the vacated tail keeps its old bytes
fill_zero_skipped(b, from, to) == b

\* buf[from..to].fill(0)
fill_zero(b, from, to) ==
    SubSeq(b, 1, from) \o [i \in 1..(to - from) |-> 0] \o SubSeq(b, to + 1, Len(b))

\* (mutant) lower is not compared with 16 + slot_count * 6
validate_header_no_formula(b) ==
    LET lo == lower(b)
        up == upper(b)
        sc == slot_count(b)
        expected_lo == SLOTTED_HEADER_SIZE + sc * SLOTTED_SLOT_SIZE
    IN  IF lo < SLOTTED_HEADER_SIZE THEN "Corruption"
        ELSE IF up > PAGE_SIZE THEN "Corruption"
        ELSE IF lo > up THEN "Corruption"
        ELSE IF expected_lo > PAGE_SIZE THEN "Corruption"
        ELSE "Ok"

validate_header(b) ==
    LET lo == lower(b)
        up == upper(b)
        sc == slot_count(b)
        expected_lo == SLOTTED_HEADER_SIZE + sc * SLOTTED_SLOT_SIZE
    IN  IF lo < SLOTTED_HEADER_SIZE THEN "Corruption"
        ELSE IF up > PAGE_SIZE THEN "Corruption"
        ELSE IF lo > up THEN "Corruption"
        ELSE IF expected_lo > PAGE_SIZE THEN "Corruption"
        ELSE IF lo # expected_lo THEN "Corruption"
        ELSE "Ok"

\* (mutant) a live slot's offset is not compared with upper
validate_full_any_offset(b) ==
    IF validate_header(b) # "Ok" THEN "Corruption"
    ELSE IF \E slot_id \in 0..(slot_count(b) - 1) :
                \/ ~current_pos_ok(b, slot_id)
                \/ LET s == read_slot(b, slot_id)
                   IN  /\ ~is_dead(s.flags)
                       /\ s.offset + s.len > PAGE_SIZE
         THEN "Corruption"
    ELSE "Ok"

validate_full(b) ==
    IF validate_header(b) # "Ok" THEN "Corruption"
    ELSE IF \E slot_id \in 0..(slot_count(b) - 1) :
                \/ ~current_pos_ok(b, slot_id)
                \/ LET s == read_slot(b, slot_id)
                   IN  /\ ~is_dead(s.flags)
                       /\ \/ s.offset + s.len > PAGE_SIZE
                          \/ s.offset < upper(b)
         THEN "Corruption"
    ELSE "Ok"

free_space(b) ==
    IF upper(b) < lower(b)
    THEN [res |-> "Corruption", ret |-> 0]
    ELSE [res |-> "Ok", ret |-> upper(b) - lower(b)]

\* (mutant) the slot's offset is not compared with upper
get_any_offset(b, slot_id) ==
    IF validate_header(b) # "Ok" THEN Err("Corruption", b)
    ELSE IF slot_id >= slot_count(b) THEN Err("InvalidArgument", b)
    ELSE IF ~current_pos_ok(b, slot_id) THEN Err("Corruption", b)
    ELSE LET slot == read_slot(b, slot_id)
             start == slot.offset
             end == slot.offset + slot.len
         IN  IF is_dead(slot.flags) THEN [res |-> "Ok", buf |-> b, ret |-> NoRet]
             ELSE IF end > PAGE_SIZE THEN Err("Corruption", b)
             ELSE [res |-> "Ok", buf |-> b,
                   ret |-> [none |-> FALSE, bytes |-> SubSeq(b, start + 1, end)]]

get(b, slot_id) ==
    IF validate_header(b) # "Ok" THEN Err("Corruption", b)
    ELSE IF slot_id >= slot_count(b) THEN Err("InvalidArgument", b)
    ELSE IF ~current_pos_ok(b, slot_id) THEN Err("Corruption", b)
    ELSE LET slot == read_slot(b, slot_id)
             start == slot.offset
             end == slot.offset + slot.len
         IN  IF is_dead(slot.flags) THEN [res |-> "Ok", buf |-> b, ret |-> NoRet]
             ELSE IF start < upper(b) THEN Err("Corruption", b)
             ELSE IF end > PAGE_SIZE THEN Err("Corruption", b)
             ELSE [res |-> "Ok", buf |-> b,
                   ret |-> [none |-> FALSE, bytes |-> SubSeq(b, start + 1, end)]]

\* (mutant) the scan starts at slot 1
find_free_slot_from_one(b) ==
    LET page_flags == flags(b)
        sc == slot_count(b)
        dead == {i \in 1..(sc - 1) : current_pos_ok(b, i) /\ is_dead(read_slot(b, i).flags)}
    IN  IF BitAnd(page_flags, FLAG_HAS_FREE_SLOTS) = 0
        THEN [res |-> "Ok", buf |-> b, ret |-> NoRet]
        ELSE IF dead # {}
        THEN [res |-> "Ok", buf |-> b,
              ret |-> [none |-> FALSE, id |-> CHOOSE i \in dead : \A j \in dead : i <= j]]
        ELSE [res |-> "Ok",
              buf |-> set_flags(b, clear_flag(page_flags, FLAG_HAS_FREE_SLOTS)),
              ret |-> NoRet]

find_free_slot(b) ==
    LET page_flags == flags(b)
        sc == slot_count(b)
        dead == {i \in 0..(sc - 1) : current_pos_ok(b, i) /\ is_dead(read_slot(b, i).flags)}
        bad == {i \in 0..(sc - 1) : ~current_pos_ok(b, i)}
    IN  IF BitAnd(page_flags, FLAG_HAS_FREE_SLOTS) = 0
        THEN [res |-> "Ok", buf |-> b, ret |-> NoRet]
        ELSE IF \E i \in dead : \A j \in bad : i < j
        THEN [res |-> "Ok", buf |-> b,
              ret |-> [none |-> FALSE, id |-> CHOOSE i \in dead : \A j \in dead : i <= j]]
        ELSE IF bad # {} THEN Err("Corruption", b)
        ELSE [res |-> "Ok",
              buf |-> set_flags(b, clear_flag(page_flags, FLAG_HAS_FREE_SLOTS)),
              ret |-> NoRet]

\* (mutant) the slot entry's bytes are not counted
need_slot_none(can_reuse) == 0

\* (mutant) a slot entry is counted even when a tombstone is reused
need_slot_always(can_reuse) == SLOTTED_SLOT_SIZE

\* insert: bytes the slot directory grows by
need_slot(can_reuse) == IF can_reuse THEN 0 ELSE SLOTTED_SLOT_SIZE

\* (mutant) lower computed from the old slot count
lower_new_stale(sc) == SLOTTED_HEADER_SIZE + sc * SLOTTED_SLOT_SIZE

\* insert: lower after the directory grew by one slot
lower_new(sc) == SLOTTED_HEADER_SIZE + (sc + 1) * SLOTTED_SLOT_SIZE

insert(b, d) ==
    IF validate_header(b) # "Ok" THEN Err("Corruption", b)
    ELSE IF d.len > U16_MAX THEN Err("Corruption", b)
    ELSE
    LET up == upper(b)
        sc == slot_count(b)
        need_data_len == d.len
        reuse == find_free_slot(b)
        b1 == reuse.buf
        can_reuse == ~reuse.ret.none
        slot_id == IF can_reuse THEN reuse.ret.id ELSE sc
        need_total == need_data_len + need_slot(can_reuse)
        free == free_space(b1)
        upper_new == up - need_data_len
        b2 == copy_from_slice(b1, upper_new, up, d)
        b3 == write_slot(b2, slot_id,
                         [offset |-> upper_new, len |-> need_data_len, flags |-> 0])
        b4 == IF ~can_reuse
              THEN set_lower(set_slot_count(b3, sc + 1), lower_new(sc))
              ELSE b3
    IN  IF reuse.res # "Ok" THEN Err(reuse.res, b1)
        ELSE IF need_total > U16_MAX THEN Err("Corruption", b1)
        ELSE IF free.res # "Ok" THEN Err(free.res, b1)
        ELSE IF need_total > free.ret THEN Err("NoSpace", b1)
        ELSE IF need_data_len > up THEN Err("Corruption", b1)
        ELSE IF ~current_pos_ok(b2, slot_id) THEN Err("Corruption", b2)
        ELSE [res |-> "Ok", buf |-> set_upper(b4, upper_new), ret |-> slot_id]

\* (mutant) an update of equal length is moved
fits_in_place_strict(need, old_len) == need < old_len

\* (mutant) every update is written at the old offset
fits_in_place_always(need, old_len) == TRUE

\* update: case 2 (in place) when the new payload is not longer than the old
fits_in_place(need, old_len) == need <= old_len

\* (mutant) the free-space test is made before the DEAD test
update_space_first(b, slot_id, d) ==
    IF validate_header(b) # "Ok" THEN Err("Corruption", b)
    ELSE IF slot_id >= slot_count(b) THEN Err("InvalidArgument", b)
    ELSE IF ~current_pos_ok(b, slot_id) THEN Err("Corruption", b)
    ELSE
    LET slot == read_slot(b, slot_id)
        need == d.len
        old_len == slot.len
        start == slot.offset
        end_new == start + need
        end_old == start + old_len
        free == free_space(b)
        up == upper(b)
        upper_new == up - need
    IN  IF need > U16_MAX THEN Err("Corruption", b)
        ELSE IF ~fits_in_place(need, old_len) /\ free.res = "Ok" /\ need > free.ret
        THEN Err("NoSpace", b)
        ELSE IF is_dead(slot.flags) THEN Err("Corruption", b)
        ELSE IF fits_in_place(need, old_len)
        THEN IF end_new > Len(b) THEN Err("Panic", b)
             ELSE IF end_old > Len(b)
             THEN Err("Panic", copy_from_slice(b, start, end_new, d))
             ELSE [res |-> "Ok",
                   buf |-> write_slot(
                               fill_zero(copy_from_slice(b, start, end_new, d),
                                         end_new, end_old),
                               slot_id,
                               [offset |-> slot.offset, len |-> need, flags |-> slot.flags]),
                   ret |-> FALSE]
        ELSE IF free.res # "Ok" THEN Err(free.res, b)
        ELSE IF need > free.ret THEN Err("NoSpace", b)
        ELSE IF need > up THEN Err("Corruption", b)
        ELSE [res |-> "Ok",
              buf |-> set_upper(
                          write_slot(copy_from_slice(b, upper_new, up, d), slot_id,
                                     [offset |-> upper_new, len |-> need,
                                      flags |-> slot.flags]),
                          upper_new),
              ret |-> TRUE]

\* (mutant) a relocating update clears HAS_FREE_SLOTS
update_clears_free_flag(b, slot_id, d) ==
    IF validate_header(b) # "Ok" THEN Err("Corruption", b)
    ELSE IF slot_id >= slot_count(b) THEN Err("InvalidArgument", b)
    ELSE IF ~current_pos_ok(b, slot_id) THEN Err("Corruption", b)
    ELSE
    LET slot == read_slot(b, slot_id)
        need == d.len
        old_len == slot.len
        start == slot.offset
        end_new == start + need
        end_old == start + old_len
        free == free_space(b)
        up == upper(b)
        upper_new == up - need
    IN  IF is_dead(slot.flags) THEN Err("Corruption", b)
        ELSE IF need > U16_MAX THEN Err("Corruption", b)
        ELSE IF fits_in_place(need, old_len)
        THEN IF end_new > Len(b) THEN Err("Panic", b)
             ELSE IF end_old > Len(b)
             THEN Err("Panic", copy_from_slice(b, start, end_new, d))
             ELSE [res |-> "Ok",
                   buf |-> write_slot(
                               fill_zero(copy_from_slice(b, start, end_new, d),
                                         end_new, end_old),
                               slot_id,
                               [offset |-> slot.offset, len |-> need, flags |-> slot.flags]),
                   ret |-> FALSE]
        ELSE IF free.res # "Ok" THEN Err(free.res, b)
        ELSE IF need > free.ret THEN Err("NoSpace", b)
        ELSE IF need > up THEN Err("Corruption", b)
        ELSE [res |-> "Ok",
              buf |-> set_flags(
                          set_upper(
                              write_slot(copy_from_slice(b, upper_new, up, d), slot_id,
                                         [offset |-> upper_new, len |-> need,
                                          flags |-> slot.flags]),
                              upper_new),
                          clear_flag(flags(b), FLAG_HAS_FREE_SLOTS)),
              ret |-> TRUE]

update(b, slot_id, d) ==
    IF validate_header(b) # "Ok" THEN Err("Corruption", b)
    ELSE IF slot_id >= slot_count(b) THEN Err("InvalidArgument", b)
    ELSE IF ~current_pos_ok(b, slot_id) THEN Err("Corruption", b)
    ELSE
    LET slot == read_slot(b, slot_id)
        need == d.len
        old_len == slot.len
        start == slot.offset
        end_new == start + need
        end_old == start + old_len
        free == free_space(b)
        up == upper(b)
        upper_new == up - need
    IN  IF is_dead(slot.flags) THEN Err("Corruption", b)
        ELSE IF need > U16_MAX THEN Err("Corruption", b)
        ELSE IF fits_in_place(need, old_len)
        THEN IF end_new > Len(b) THEN Err("Panic", b)
             ELSE IF end_old > Len(b)
             THEN Err("Panic", copy_from_slice(b, start, end_new, d))
             ELSE [res |-> "Ok",
                   buf |-> write_slot(
                               fill_zero(copy_from_slice(b, start, end_new, d),
                                         end_new, end_old),
                               slot_id,
                               [offset |-> slot.offset, len |-> need, flags |-> slot.flags]),
                   ret |-> FALSE]
        ELSE IF free.res # "Ok" THEN Err(free.res, b)
        ELSE IF need > free.ret THEN Err("NoSpace", b)
        ELSE IF need > up THEN Err("Corruption", b)
        ELSE [res |-> "Ok",
              buf |-> set_upper(
                          write_slot(copy_from_slice(b, upper_new, up, d), slot_id,
                                     [offset |-> upper_new, len |-> need,
                                      flags |-> slot.flags]),
                          upper_new),
              ret |-> TRUE]

\* (mutant) the first unallocated slot id is accepted
delete_past_end(b, slot_id) ==
    IF validate_header(b) # "Ok" THEN Err("Corruption", b)
    ELSE IF slot_id > slot_count(b) THEN Err("InvalidArgument", b)
    ELSE IF ~current_pos_ok(b, slot_id) THEN Err("Corruption", b)
    ELSE
    LET slot == read_slot(b, slot_id)
        b1 == write_slot(b, slot_id, mark_flags_dead(slot))
    IN  IF is_dead(slot.flags) THEN [res |-> "Ok", buf |-> b, ret |-> NoRet]
        ELSE [res |-> "Ok",
              buf |-> set_flags(b1, set_flag(flags(b1), FLAG_HAS_FREE_SLOTS)),
              ret |-> NoRet]

\* (mutant) the bytes of a tuple deleted at upper are given back
delete_reclaims(b, slot_id) ==
    IF validate_header(b) # "Ok" THEN Err("Corruption", b)
    ELSE IF slot_id >= slot_count(b) THEN Err("InvalidArgument", b)
    ELSE IF ~current_pos_ok(b, slot_id) THEN Err("Corruption", b)
    ELSE
    LET slot == read_slot(b, slot_id)
        b1 == write_slot(b, slot_id, mark_flags_dead(slot))
        b2 == set_flags(b1, set_flag(flags(b1), FLAG_HAS_FREE_SLOTS))
    IN  IF is_dead(slot.flags) THEN [res |-> "Ok", buf |-> b, ret |-> NoRet]
        ELSE [res |-> "Ok",
              buf |-> IF slot.offset = upper(b)
                      THEN set_upper(b2, upper(b) + slot.len)
                      ELSE b2,
              ret |-> NoRet]

delete(b, slot_id) ==
    IF validate_header(b) # "Ok" THEN Err("Corruption", b)
    ELSE IF slot_id >= slot_count(b) THEN Err("InvalidArgument", b)
    ELSE IF ~current_pos_ok(b, slot_id) THEN Err("Corruption", b)
    ELSE
    LET slot == read_slot(b, slot_id)
        b1 == write_slot(b, slot_id, mark_flags_dead(slot))
    IN  IF is_dead(slot.flags) THEN [res |-> "Ok", buf |-> b, ret |-> NoRet]
        ELSE [res |-> "Ok",
              buf |-> set_flags(b1, set_flag(flags(b1), FLAG_HAS_FREE_SLOTS)),
              ret |-> NoRet]

\* ------------------------------------------------------------------------
\* The state machine: one page buffer, operated on by a single caller.
\* ------------------------------------------------------------------------
VARIABLES
    buf,     \* the page buffer wrapped by SlottedPage
    kept,    \* slot id -> payload the caller last stored under it (live ids only)
    last,    \* the call just made: operation, arguments, result
    nops     \* number of calls made since init

vars == <<buf, kept, last, nops>>

ZeroPage == [i \in 1..PAGE_SIZE |-> 0]

\* The payload of the n-th call: its first byte differs from call to call.
Payload(len) == [len |-> len, seed |-> 1 + 41 * nops]

\* Slot ids a caller passes: every allocated id and the first unallocated one.
SlotIds == 0..slot_count(buf)

DeadSlots(b) == {i \in 0..(slot_count(b) - 1) : is_dead(read_slot(b, i).flags)}

NoSlot == [offset |-> 0, len |-> 0, flags |-> 0]

\* What the caller could observe of the page before a call.
Pre(b, id) ==
    [lower |-> lower(b), upper |-> upper(b), slot_count |-> slot_count(b),
     flags |-> flags(b), free |-> upper(b) - lower(b), dead |-> DeadSlots(b),
     slot |-> IF id < slot_count(b) THEN read_slot(b, id) ELSE NoSlot]

Call(op, id, d, r) ==
    [op |-> op, id |-> id, data |-> d, res |-> r.res, ret |-> r.ret, pre |-> Pre(buf, id)]

NoData == [len |-> 0, seed |-> 0]

Init ==
    /\ \E page_type \in PageTypes : buf = init_empty(ZeroPage, page_type)
    /\ kept = <<>>
    /\ last = [op |-> "init", id |-> 0, data |-> NoData, res |-> "Ok", ret |-> NoRet,
               pre |-> Pre(buf, 0)]
    /\ nops = 0

Insert ==
    /\ nops < MaxOps
    /\ \E len \in DataLens \cup BigLens :
        LET d == Payload(len)
            r == insert(buf, d)
        IN  /\ buf' = r.buf
            /\ last' = Call("insert", 0, d, r)
            /\ kept' = IF r.res = "Ok"
                       THEN [i \in (DOMAIN kept) \cup {r.ret} |->
                                IF i = r.ret THEN d ELSE kept[i]]
                       ELSE kept
    /\ nops' = nops + 1

Get ==
    /\ nops < MaxOps
    /\ \E slot_id \in SlotIds :
        LET r == get(buf, slot_id)
        IN  /\ buf' = r.buf
            /\ last' = Call("get", slot_id, NoData, r)
    /\ nops' = nops + 1
    /\ UNCHANGED kept

Update ==
    /\ nops < MaxOps
    /\ \E slot_id \in SlotIds, len \in DataLens :
        LET d == Payload(len)
            r == update(buf, slot_id, d)
        IN  /\ buf' = r.buf
            /\ last' = Call("update", slot_id, d, r)
            /\ kept' = IF r.res = "Ok" THEN [kept EXCEPT ![slot_id] = d] ELSE kept
    /\ nops' = nops + 1

Delete ==
    /\ nops < MaxOps
    /\ \E slot_id \in SlotIds :
        LET r == delete(buf, slot_id)
        IN  /\ buf' = r.buf
            /\ last' = Call("delete", slot_id, NoData, r)
            /\ kept' = IF r.res = "Ok"
                       THEN [i \in (DOMAIN kept) \ {slot_id} |-> kept[i]]
                       ELSE kept
    /\ nops' = nops + 1

Next == Insert \/ Get \/ Update \/ Delete

Spec == Init /\ [][Next]_vars

\* ------------------------------------------------------------------------
\* Properties
\* ------------------------------------------------------------------------
LiveSlots(b) == (0..(slot_count(b) - 1)) \ DeadSlots(b)

Some(bytes) == [none |-> FALSE, bytes |-> bytes]

\* get(id) succeeds and returns exactly the bytes of payload d
GetReturns(b, id, d) ==
    LET g == get(b, id)
    IN  g.res = "Ok" /\ g.ret = Some(Bytes(d))

\* C1: on a freshly initialized page, get(id) of every slot id handed out and
\* still stored yields exactly the bytes last stored under it, whatever reads
\* are interleaved; a read just made returned those bytes.
InsertGetRoundTrip ==
    /\ \A id \in DOMAIN kept : GetReturns(buf, id, kept[id])
    /\ (last.op = "get" /\ last.id \in DOMAIN kept) =>
            (last.res = "Ok" /\ last.ret = Some(Bytes(kept[last.id])))

\* Three inserts and one read of a non-empty tuple, nothing else.
RoundTripReached ==
    /\ nops = 4
    /\ slot_count(buf) = 3
    /\ DOMAIN kept = {0, 1, 2}
    /\ last.op = "get" /\ last.res = "Ok"
    /\ last.ret = Some(Bytes(kept[last.id]))
    /\ kept[last.id].len = 3

\* C2: after any sequence of insert, update and delete calls, successful or
\* not, 16 <= lower <= upper <= 4096 and lower = 16 + slot_count * 6, and
\* validate_header returns Ok.
HeaderInvariant ==
    /\ SLOTTED_HEADER_SIZE <= lower(buf)
    /\ lower(buf) <= upper(buf)
    /\ upper(buf) <= PAGE_SIZE
    /\ lower(buf) = SLOTTED_HEADER_SIZE + slot_count(buf) * SLOTTED_SLOT_SIZE
    /\ validate_header(buf) = "Ok"

\* A call failed for lack of space on a page with two slots, one deleted.
HeaderAfterFailureReached ==
    /\ last.res = "NoSpace"
    /\ slot_count(buf) = 2
    /\ DeadSlots(buf) # {}

\* C3: every slot that is not DEAD has upper <= offset and
\* offset + len <= PAGE_SIZE, and validate_full returns Ok.
LiveTupleContainment ==
    /\ \A i \in LiveSlots(buf) :
            LET s == read_slot(buf, i)
            IN  upper(buf) <= s.offset /\ s.offset + s.len <= PAGE_SIZE
    /\ validate_full(buf) = "Ok"

\* A tuple was moved by update while another slot is dead and one is live
\* and non-empty.
ContainmentAfterMoveReached ==
    /\ last.op = "update" /\ last.res = "Ok" /\ last.ret = TRUE
    /\ DeadSlots(buf) # {}
    /\ \E i \in LiveSlots(buf) : read_slot(buf, i).len > 0

\* C4: the byte ranges [offset, offset + len) of two distinct live slots are
\* disjoint.
NoOverlap ==
    \A i, j \in LiveSlots(buf) :
        i # j =>
            LET si == read_slot(buf, i)
                sj == read_slot(buf, j)
            IN  \/ si.offset + si.len <= sj.offset
                \/ sj.offset + sj.len <= si.offset

\* A tombstone was reused by an insert while two other tuples are live, one
\* of them non-empty.
OverlapCaseReached ==
    /\ last.op = "insert" /\ last.res = "Ok"
    /\ last.ret \in last.pre.dead
    /\ last.data.len > 0
    /\ Cardinality(LiveSlots(buf)) = 3
    /\ \E j \in LiveSlots(buf) : j # last.ret /\ read_slot(buf, j).len > 0

\* C5: a successful insert that allocates a new slot id lowers free_space()
\* by exactly data.len() + 6; one that reuses a tombstone lowers it by
\* exactly data.len().
InsertSpaceAccounting ==
    (last.op = "insert" /\ last.res = "Ok") =>
        /\ last.ret = last.pre.slot_count \/ last.ret \in last.pre.dead
        /\ last.ret = last.pre.slot_count =>
                free_space(buf).ret = last.pre.free - (last.data.len + SLOTTED_SLOT_SIZE)
        /\ last.ret \in last.pre.dead =>
                free_space(buf).ret = last.pre.free - last.data.len

\* An insert of three bytes reused a tombstone and filled the page.
ReuseAccountingReached ==
    /\ last.op = "insert" /\ last.res = "Ok"
    /\ last.ret \in last.pre.dead
    /\ last.data.len = 3
    /\ last.pre.free = 3
    /\ free_space(buf).ret = 0

\* C6: delete(id) of a live slot sets bit 0 of that slot's flags and the
\* HAS_FREE_SLOTS bit of the page flags and changes no other bit of the page:
\* lower, upper, slot_count, free_space(), the slot's offset and len, every
\* other slot entry and all tuple bytes stay as they were.
DeleteFrame ==
    [][(/\ last'.op = "delete" /\ last'.res = "Ok"
        /\ last'.id < slot_count(buf)
        /\ ~is_dead(read_slot(buf, last'.id).flags)) =>
            LET id == last'.id
                slot_flags_lo == slot_off(id) + OFF_SLOT_FLAGS + 1
                page_flags_lo == OFF_FLAGS + 1
            IN  /\ \A i \in 1..PAGE_SIZE :
                        (i # slot_flags_lo /\ i # page_flags_lo) => buf'[i] = buf[i]
                /\ read_slot(buf', id).flags = read_slot(buf, id).flags + SLOT_DEAD
                /\ flags(buf') \in {flags(buf), flags(buf) + FLAG_HAS_FREE_SLOTS}
                /\ BitAnd(flags(buf'), FLAG_HAS_FREE_SLOTS) # 0
                /\ lower(buf') = lower(buf) /\ upper(buf') = upper(buf)
                /\ slot_count(buf') = slot_count(buf)
                /\ free_space(buf') = free_space(buf)
                /\ read_slot(buf', id).offset = read_slot(buf, id).offset
                /\ read_slot(buf', id).len = read_slot(buf, id).len
      ]_vars

\* A live, non-empty slot was deleted on a page that holds another tuple.
DeleteOfLiveReached ==
    /\ last.op = "delete" /\ last.res = "Ok"
    /\ last.id < last.pre.slot_count
    /\ ~is_dead(last.pre.slot.flags)
    /\ last.pre.slot.len > 0
    /\ LiveSlots(buf) # {}

\* C7: after delete(id), get(id) returns None; while a DEAD slot exists, a
\* successful insert returns the id of a DEAD slot, not a new id, leaves
\* slot_count unchanged, and get of the returned id returns the data.
DeleteThenReuse ==
    /\ (last.op = "delete" /\ last.res = "Ok") =>
            LET g == get(buf, last.id)
            IN  g.res = "Ok" /\ g.ret = NoRet
    /\ (last.op = "insert" /\ last.res = "Ok" /\ last.pre.dead # {}) =>
            /\ last.ret \in last.pre.dead
            /\ last.ret < last.pre.slot_count
            /\ slot_count(buf) = last.pre.slot_count
            /\ GetReturns(buf, last.ret, last.data)

\* Slot 0 was deleted and handed out again by the next insert.
ReuseOfDeletedReached ==
    /\ last.op = "insert" /\ last.res = "Ok"
    /\ last.pre.dead = {0}
    /\ last.ret = 0
    /\ slot_count(buf) = 2
    /\ GetReturns(buf, 0, last.data)

\* C8: a successful update(id, data) of a live slot with data.len() <= the
\* slot's len returns false and leaves upper unchanged; with data.len() > the
\* slot's len it returns true and strictly lowers upper; in both cases get(id)
\* then returns exactly data.
UpdateInPlaceOrMove ==
    (last.op = "update" /\ last.res = "Ok") =>
        /\ last.data.len <= last.pre.slot.len =>
                (last.ret = FALSE /\ upper(buf) = last.pre.upper)
        /\ last.data.len > last.pre.slot.len =>
                (last.ret = TRUE /\ upper(buf) < last.pre.upper)
        /\ GetReturns(buf, last.id, last.data)

\* An update of equal, non-zero length was written in place.
UpdateSameLengthReached ==
    /\ last.op = "update" /\ last.res = "Ok"
    /\ last.data.len = last.pre.slot.len
    /\ last.data.len = 3
    /\ last.ret = FALSE

\* Bytes an insert needs: the payload, plus a slot entry unless a tombstone
\* is reused.
Required(c) == c.data.len + (IF c.pre.dead # {} THEN 0 ELSE SLOTTED_SLOT_SIZE)

\* C9 as stated: an insert whose required bytes exceed free_space() fails
\* with NoSpace, for every payload length.
InsertNoSpaceAnyLength ==
    (last.op = "insert" /\ Required(last) > last.pre.free) => last.res = "NoSpace"

\* C9: an insert whose required bytes exceed free_space() fails: with NoSpace
\* when the required bytes fit in 16 bits, with Corruption when they do not.
InsertNoSpaceKind ==
    (last.op = "insert" /\ Required(last) > last.pre.free) =>
        last.res = (IF Required(last) > U16_MAX THEN "Corruption" ELSE "NoSpace")

\* An insert of an empty payload failed for lack of the 6 bytes of its slot.
EmptyInsertNoSpaceReached ==
    /\ last.op = "insert" /\ last.res = "NoSpace"
    /\ last.data.len = 0
    /\ last.pre.dead = {}
    /\ last.pre.free = 3

\* C10 as stated: when insert or a growing update fails with NoSpace, the
\* header (lower, upper, slot_count, flags, reserved) and every slot entry
\* are what they were before the call.
NoSpaceLeavesHeaderAndSlots ==
    [][(last'.op \in {"insert", "update"} /\ last'.res = "NoSpace") =>
            SubSeq(buf', 1, lower(buf)) = SubSeq(buf, 1, lower(buf))
      ]_vars

\* ------------------------------------------------------------------------
\* Arbitrary buffers.  The caller hands SlottedPage::new a buffer it did not
\* build with this code: a header drawn from Headers (valid ones, and one
\* for each way a header can be broken), slot 0 set to an entry drawn from
\* SlotOffsets x SlotLens x SlotFlags, every other byte a filler pattern;
\* or a buffer that is not PAGE_SIZE long.  Then one call is made.
\* ------------------------------------------------------------------------
MaxPageOps == 1

\* SlottedPage::new: accepts only a PAGE_SIZE buffer
new(b) == IF Len(b) # PAGE_SIZE THEN "Corruption" ELSE "Ok"

\* SlottedPage::init
init(b, page_type) == [res |-> "Ok", buf |-> init_empty(b, page_type), ret |-> NoRet]

\* SlottedHeader::decode
decode(b) ==
    IF Len(b) # PAGE_SIZE THEN Err("Corruption", b)
    ELSE [res |-> "Ok", buf |-> b,
          ret |-> [lower |-> lower(b), upper |-> upper(b),
                   slot_count |-> slot_count(b), flags |-> flags(b),
                   reserved |-> reserved(b)]]

Filler(n) == [i \in 1..n |-> (7 * i) % 251]

Headers ==
    { [lower |-> 16,    upper |-> 4096,  slot_count |-> 0,     flags |-> 0],
      [lower |-> 22,    upper |-> 4090,  slot_count |-> 1,     flags |-> 1],
      [lower |-> 28,    upper |-> 4090,  slot_count |-> 2,     flags |-> 17],
      [lower |-> 4096,  upper |-> 4096,  slot_count |-> 680,   flags |-> 16],
      [lower |-> 10,    upper |-> 4096,  slot_count |-> 0,     flags |-> 0],
      [lower |-> 22,    upper |-> 4097,  slot_count |-> 1,     flags |-> 0],
      [lower |-> 22,    upper |-> 20,    slot_count |-> 1,     flags |-> 0],
      [lower |-> 22,    upper |-> 4090,  slot_count |-> 2,     flags |-> 0],
      [lower |-> 65535, upper |-> 65535, slot_count |-> 65535, flags |-> 65535] }

SlotOffsets == {0, 4090, 4095, 65535}
SlotLens == {0, 3, 65535}
SlotFlags == {0, 1}
ShortLens == {0, 15, 4095, 4097}
PageSlotIds == {0, 1, 2}
PageDataLens == {0, 3}
AllPageTypes == {0, 1, 2, 3}

MkPage(h, s) ==
    write_slot(
        set_flags(
            set_slot_count(
                set_upper(set_lower(Filler(PAGE_SIZE), h.lower), h.upper),
                h.slot_count),
            h.flags),
        0, s)

PageCall(op, id, d, r) ==
    [op |-> op, id |-> id, data |-> d, res |-> r.res, ret |-> r.ret]

AnyPageInit ==
    /\ \/ \E h \in Headers, o \in SlotOffsets, l \in SlotLens, f \in SlotFlags :
            buf = MkPage(h, [offset |-> o, len |-> l, flags |-> f])
       \/ \E n \in ShortLens : buf = Filler(n)
    /\ kept = <<>>
    /\ last = [op |-> "none", id |-> 0, data |-> NoData, res |-> "Ok", ret |-> NoRet]
    /\ nops = 0

PageStep(op, id, d, r) ==
    /\ buf' = r.buf
    /\ last' = PageCall(op, id, d, r)
    /\ nops' = nops + 1
    /\ UNCHANGED kept

PageInit ==
    /\ nops < MaxPageOps /\ new(buf) = "Ok"
    /\ \E page_type \in AllPageTypes : PageStep("init", page_type, NoData, init(buf, page_type))

PageDecode ==
    /\ nops < MaxPageOps
    /\ PageStep("decode", 0, NoData, decode(buf))

PageValidateHeader ==
    /\ nops < MaxPageOps /\ new(buf) = "Ok"
    /\ PageStep("validate_header", 0, NoData,
                [res |-> validate_header(buf), buf |-> buf, ret |-> NoRet])

PageValidateFull ==
    /\ nops < MaxPageOps /\ new(buf) = "Ok"
    /\ PageStep("validate_full", 0, NoData,
                [res |-> validate_full(buf), buf |-> buf, ret |-> NoRet])

PageGet ==
    /\ nops < MaxPageOps /\ new(buf) = "Ok"
    /\ \E slot_id \in PageSlotIds : PageStep("get", slot_id, NoData, get(buf, slot_id))

PageInsert ==
    /\ nops < MaxPageOps /\ new(buf) = "Ok"
    /\ \E len \in PageDataLens :
            PageStep("insert", 0, Payload(len), insert(buf, Payload(len)))

PageUpdate ==
    /\ nops < MaxPageOps /\ new(buf) = "Ok"
    /\ \E slot_id \in PageSlotIds, len \in PageDataLens :
            PageStep("update", slot_id, Payload(len), update(buf, slot_id, Payload(len)))

PageDelete ==
    /\ nops < MaxPageOps /\ new(buf) = "Ok"
    /\ \E slot_id \in PageSlotIds : PageStep("delete", slot_id, NoData, delete(buf, slot_id))

PageNext ==
    \/ PageInit \/ PageDecode \/ PageValidateHeader \/ PageValidateFull
    \/ PageGet \/ PageInsert \/ PageUpdate \/ PageDelete

SpecAnyPage == AnyPageInit /\ [][PageNext]_vars

\* The four header invariants hold of the buffer.
HeaderHolds(b) ==
    /\ SLOTTED_HEADER_SIZE <= lower(b)
    /\ lower(b) <= upper(b)
    /\ upper(b) <= PAGE_SIZE
    /\ lower(b) = SLOTTED_HEADER_SIZE + slot_count(b) * SLOTTED_SLOT_SIZE

\* Header and slot directory of b2 equal those of b1, but for the entry of
\* slot id and the upper field.
DirectoryKept(b1, b2, id) ==
    \A i \in 1..lower(b1) :
        \/ b2[i] = b1[i]
        \/ i \in {OFF_UPPER + 1, OFF_UPPER + 2}
        \/ (i > slot_off(id) /\ i <= slot_off(id) + SLOTTED_SLOT_SIZE)

\* C11: whatever the PAGE_SIZE buffer holds, get, insert, update, delete and
\* validate_header return Ok or an error and never panic, and update writes
\* nothing into the header or the slot directory beyond its own slot entry
\* and the upper field.
NoPanicOnMalformedInput ==
    [][(last'.op \in {"get", "insert", "update", "delete", "validate_header"}) =>
            /\ last'.res \in {"Ok", "Corruption", "NoSpace", "InvalidArgument"}
            /\ (last'.op = "update" /\ HeaderHolds(buf)) =>
                    DirectoryKept(buf, buf', last'.id)
      ]_vars

\* C12: when the header breaks a header invariant (lower < 16, upper > 4096,
\* lower > upper, or lower # 16 + slot_count * 6), insert, update, delete and
\* get each fail with Corruption and leave every byte of the buffer as it was.
ValidationBeforeMutation ==
    [][(last'.op \in {"insert", "update", "delete", "get"} /\ ~HeaderHolds(buf)) =>
            (last'.res = "Corruption" /\ buf' = buf)
      ]_vars

\* A delete was refused on a page whose only fault is lower # 16 + slot_count * 6.
BrokenHeaderRejectedReached ==
    /\ last.op = "delete" /\ last.res = "Corruption"
    /\ SLOTTED_HEADER_SIZE <= lower(buf) /\ lower(buf) <= upper(buf)
    /\ upper(buf) <= PAGE_SIZE
    /\ lower(buf) # SLOTTED_HEADER_SIZE + slot_count(buf) * SLOTTED_SLOT_SIZE

\* C13: on a page with a valid header, get(slot_id) fails with InvalidArgument
\* when slot_id >= slot_count, returns None when the slot is DEAD, fails with
\* Corruption when the live slot has offset < upper or offset + len >
\* PAGE_SIZE, and otherwise returns the bytes [offset, offset + len); the
\* buffer is unchanged in every case.
GetOutcomes ==
    [][(last'.op = "get" /\ HeaderHolds(buf)) =>
            LET id == last'.id
                s == read_slot(buf, id)
            IN  /\ buf' = buf
                /\ IF id >= slot_count(buf) THEN last'.res = "InvalidArgument"
                   ELSE IF BitAnd(s.flags, SLOT_DEAD) # 0
                   THEN last'.res = "Ok" /\ last'.ret = NoRet
                   ELSE IF s.offset < upper(buf) \/ s.offset + s.len > PAGE_SIZE
                   THEN last'.res = "Corruption"
                   ELSE /\ last'.res = "Ok"
                        /\ last'.ret = Some(SubSeq(buf, s.offset + 1, s.offset + s.len))
      ]_vars

\* get refused a live slot that points below upper, on a page with a valid header.
GetBelowUpperReached ==
    /\ last.op = "get" /\ last.res = "Corruption"
    /\ HeaderHolds(buf)
    /\ last.id < slot_count(buf)
    /\ BitAnd(read_slot(buf, last.id).flags, SLOT_DEAD) = 0
    /\ read_slot(buf, last.id).offset < upper(buf)
    /\ read_slot(buf, last.id).offset + read_slot(buf, last.id).len <= PAGE_SIZE

\* The slot entry of id carries the DEAD bit.
MarkedDead(b, id) == BitAnd(read_slot(b, id).flags, SLOT_DEAD) # 0

\* C14: update(slot_id, data) fails with InvalidArgument when slot_id >=
\* slot_count and with Corruption when the slot is DEAD; the buffer is
\* unchanged in both cases, so a dead slot is never revived by update.
UpdateRejects ==
    [][(last'.op = "update") =>
            /\ (last'.id >= slot_count(buf)) =>
                    (last'.res = "InvalidArgument" /\ buf' = buf)
            /\ (last'.id < slot_count(buf) /\ MarkedDead(buf, last'.id)) =>
                    (last'.res = "Corruption" /\ buf' = buf /\ MarkedDead(buf', last'.id))
      ]_vars

\* An update of a deleted slot was refused, with room on the page for the data.
UpdateOfDeadReached ==
    /\ last.op = "update" /\ last.res = "Corruption"
    /\ last.id < slot_count(buf)
    /\ MarkedDead(buf, last.id)
    /\ last.data.len = 3
    /\ last.pre.free >= 3

\* C15: delete of a slot that is already DEAD returns Ok and leaves the
\* buffer unchanged (delete; delete is delete), and delete of a slot_id >=
\* slot_count fails with InvalidArgument and changes nothing.
DeleteIdempotent ==
    [][(last'.op = "delete") =>
            /\ (last'.id >= slot_count(buf)) =>
                    (last'.res = "InvalidArgument" /\ buf' = buf)
            /\ (last'.id < slot_count(buf) /\ MarkedDead(buf, last'.id)) =>
                    (last'.res = "Ok" /\ buf' = buf)
      ]_vars

\* A slot was deleted twice in a row.
DeleteTwiceReached ==
    /\ last.op = "delete" /\ last.res = "Ok"
    /\ last.id \in last.pre.dead
    /\ MarkedDead(buf, last.id)

\* C16: slot_count never decreases; it grows, by exactly 1, exactly on an
\* insert that returns the new id slot_count; and an insert returns an id
\* below slot_count only when that slot was DEAD just before, so a live id
\* is never handed out again.
SlotCountMonotone ==
    [][/\ slot_count(buf') >= slot_count(buf)
       /\ (slot_count(buf') # slot_count(buf)) =>
                /\ last'.op = "insert" /\ last'.res = "Ok"
                /\ last'.ret = slot_count(buf)
                /\ slot_count(buf') = slot_count(buf) + 1
       /\ (last'.op = "insert" /\ last'.res = "Ok") =>
                /\ last'.ret <= slot_count(buf)
                /\ (last'.ret = slot_count(buf)) =>
                        slot_count(buf') = slot_count(buf) + 1
                /\ (last'.ret < slot_count(buf)) => MarkedDead(buf, last'.ret)
      ]_vars

\* An insert handed out the id of a deleted slot while another slot was live.
DeadIdHandedOutReached ==
    /\ last.op = "insert" /\ last.res = "Ok"
    /\ last.ret < last.pre.slot_count
    /\ last.ret \in last.pre.dead
    /\ slot_count(buf) = last.pre.slot_count
    /\ Cardinality(LiveSlots(buf)) >= 2

\* The slot a call is aimed at: the id given to update and delete, the id a
\* successful insert returned; -1 when there is none.
Target(c) ==
    IF c.op \in {"update", "delete"} THEN c.id
    ELSE IF c.op = "insert" /\ c.res = "Ok" THEN c.ret
    ELSE -1

\* C17: an insert, update(i, ..) or delete(i), successful or failed, leaves
\* the slot entry (offset, len, flags) and the result of get(j) unchanged for
\* every live slot j other than the slot targeted or returned.
OtherSlotsStable ==
    [][(last'.op \in {"insert", "update", "delete"}) =>
            \A j \in LiveSlots(buf) :
                (j # Target(last')) =>
                    /\ read_slot(buf', j) = read_slot(buf, j)
                    /\ get(buf', j).res = get(buf, j).res
                    /\ get(buf', j).ret = get(buf, j).ret
      ]_vars

\* An update moved its tuple while another slot held a non-empty live tuple.
MoveBesideLiveReached ==
    /\ last.op = "update" /\ last.res = "Ok" /\ last.ret = TRUE
    /\ \E j \in LiveSlots(buf) : j # last.id /\ read_slot(buf, j).len > 0

\* Every live slot of b lies in [upper, PAGE_SIZE].
LiveSlotsContained(b) ==
    \A j \in 0..(slot_count(b) - 1) :
        MarkedDead(b, j) \/
            /\ read_slot(b, j).offset >= upper(b)
            /\ read_slot(b, j).offset + read_slot(b, j).len <= PAGE_SIZE

\* C18: for any page buffer, validate_header fails with Corruption whenever
\* lower # 16 + slot_count * 6 or 16 <= lower <= upper <= 4096 is broken, and
\* validate_full fails whenever some live slot has its offset in [0, upper)
\* or offset + len > PAGE_SIZE; both return Ok on every page that satisfies
\* all of these.
CorruptionDetection ==
    (Len(buf) = PAGE_SIZE) =>
        /\ (validate_header(buf) = "Ok") <=> HeaderHolds(buf)
        /\ (validate_header(buf) # "Ok") => validate_header(buf) = "Corruption"
        /\ (validate_full(buf) = "Ok") <=>
                (HeaderHolds(buf) /\ LiveSlotsContained(buf))
        /\ (validate_full(buf) # "Ok") => validate_full(buf) = "Corruption"
        /\ (last.op = "validate_header") => last.res = validate_header(buf)
        /\ (last.op = "validate_full") => last.res = validate_full(buf)

\* validate_full refused a page whose header is valid and whose slot 0 is
\* live and points below upper.
FullValidationRefusedReached ==
    /\ last.op = "validate_full" /\ last.res = "Corruption"
    /\ HeaderHolds(buf) /\ validate_header(buf) = "Ok"
    /\ slot_count(buf) > 0
    /\ ~MarkedDead(buf, 0)
    /\ read_slot(buf, 0).offset < upper(buf)
    /\ read_slot(buf, 0).offset + read_slot(buf, 0).len <= PAGE_SIZE

\* C19: for any page_type in {0, 1, 2, 3} and any prior contents of a
\* PAGE_SIZE buffer, init_empty then decode yields lower = 16, upper = 4096,
\* slot_count = 0, flags & 0xF = page_type with every other flag bit
\* (HAS_FREE_SLOTS too) cleared, and reserved = 0; decode of a buffer whose
\* length is not PAGE_SIZE fails with Corruption.
HeaderRoundTrip ==
    /\ (last.op = "init") =>
            LET h == decode(buf)
            IN  /\ h.res = "Ok"
                /\ h.ret.lower = SLOTTED_HEADER_SIZE
                /\ h.ret.upper = PAGE_SIZE
                /\ h.ret.slot_count = 0
                /\ BitAnd(h.ret.flags, 15) = last.id
                /\ BitAnd(h.ret.flags, U16_MAX - 15) = 0
                /\ BitAnd(h.ret.flags, FLAG_HAS_FREE_SLOTS) = 0
                /\ h.ret.reserved = U64Zero
    /\ (last.op = "decode" /\ Len(buf) # PAGE_SIZE) => last.res = "Corruption"
    /\ (last.op = "decode" /\ Len(buf) = PAGE_SIZE) =>
            /\ last.res = "Ok"
            /\ last.ret = decode(buf).ret

\* init(BTREE_INTERNAL) was run over a buffer that held slot entries before.
InitOverUsedPageReached ==
    /\ last.op = "init" /\ last.id = 3
    /\ flags(buf) = 3
    /\ read_slot(buf, 0).offset = 4090 /\ read_slot(buf, 0).len = 3
    /\ read_slot(buf, 0).flags = 1

\* ------------------------------------------------------------------------
\* raw.rs on buffers of any length: read_u16_le / read_u32_le / read_u64_le
\* are read_le with size 2 / 4 / 8, write_u16_le / write_u32_le /
\* write_u64_le are write_le.  A value read is given by its little-endian
\* bytes; a value written is a number, converted by to_le_bytes.
\* ------------------------------------------------------------------------
MaxCodecLen == 9
MaxCodecOps == 1

RECURSIVE LeByte(_, _)
\* byte i (0 = least significant) of v
LeByte(v, i) == IF i = 0 THEN v % 256 ELSE LeByte(v \div 256, i - 1)

to_le_bytes(v, size) == [i \in 1..size |-> LeByte(v, i - 1)]

OutOfBounds(off, size, len) ==
    [none |-> TRUE, off |-> off, size |-> size, len |-> len]

read_le(b, off, size) ==
    IF ~checked_range(Len(b), off, size)
    THEN [res |-> "OutOfBounds", buf |-> b, ret |-> OutOfBounds(off, size, Len(b))]
    ELSE [res |-> "Ok", buf |-> b, ret |-> Some(SubSeq(b, off + 1, off + size))]

write_le(b, off, size, v) ==
    IF ~checked_range(Len(b), off, size)
    THEN [res |-> "OutOfBounds", buf |-> b, ret |-> OutOfBounds(off, size, Len(b))]
    ELSE [res |-> "Ok",
          buf |-> SubSeq(b, 1, off) \o to_le_bytes(v, size) \o SubSeq(b, off + size + 1, Len(b)),
          ret |-> NoRet]

CodecSizes == {2, 4, 8}

\* Values written: u16 values for size 2, values below 2^31 for sizes 4 and 8.
CodecValues(size) ==
    IF size = 2 THEN {0, 258, 65535} ELSE {0, 16909060, 2147483647}

CodecCall(op, off, size, v, r) ==
    [op |-> op, off |-> off, size |-> size, value |-> v, res |-> r.res, ret |-> r.ret]

CodecInit ==
    /\ \E n \in 0..MaxCodecLen : buf = Filler(n)
    /\ kept = <<>>
    /\ last = CodecCall("none", 0, 0, 0, [res |-> "Ok", ret |-> NoRet])
    /\ nops = 0

CodecRead ==
    /\ nops < MaxCodecOps
    /\ \E off \in 0..(MaxCodecLen + 1), size \in CodecSizes :
        LET r == read_le(buf, off, size)
        IN  /\ buf' = r.buf
            /\ last' = CodecCall("read", off, size, 0, r)
    /\ nops' = nops + 1
    /\ UNCHANGED kept

CodecWrite ==
    /\ nops < MaxCodecOps
    /\ \E off \in 0..(MaxCodecLen + 1), size \in CodecSizes :
       \E v \in CodecValues(size) :
        LET r == write_le(buf, off, size, v)
        IN  /\ buf' = r.buf
            /\ last' = CodecCall("write", off, size, v, r)
    /\ nops' = nops + 1
    /\ UNCHANGED kept

CodecNext == CodecRead \/ CodecWrite

SpecCodec == CodecInit /\ [][CodecNext]_vars

\* C20: for every buffer length len, offset off and width size in {2, 4, 8},
\* a read or write fails with OutOfBounds{off, size, len} exactly when
\* off + size > len; a failed write leaves the buffer unchanged; a successful
\* write changes only bytes [off, off + size), and a read at the same offset
\* then returns the written value.
CodecBounds ==
    [][(last'.op \in {"read", "write"}) =>
            LET off == last'.off
                size == last'.size
                len == Len(buf)
            IN  /\ (last'.res = "OutOfBounds") <=> (off + size > len)
                /\ (last'.res # "OutOfBounds") => last'.res = "Ok"
                /\ (last'.res = "OutOfBounds") =>
                        /\ last'.ret = OutOfBounds(off, size, len)
                        /\ buf' = buf
                /\ (last'.op = "read") => buf' = buf
                /\ (last'.op = "read" /\ last'.res = "Ok") =>
                        last'.ret = Some([i \in 1..size |-> buf[off + i]])
                /\ (last'.op = "write" /\ last'.res = "Ok") =>
                        /\ Len(buf') = len
                        /\ \A i \in 1..len :
                                (i <= off \/ i > off + size) => buf'[i] = buf[i]
                        /\ read_le(buf', off, size).res = "Ok"
                        /\ read_le(buf', off, size).ret = Some(to_le_bytes(last'.value, size))
                        /\ (size = 2) => read_u16_le(buf', off) = last'.value
      ]_vars

\* A u64 was written into the last eight bytes of a buffer.
WriteAtEndReached ==
    /\ last.op = "write" /\ last.res = "Ok"
    /\ last.size = 8 /\ last.off > 0
    /\ last.off + last.size = Len(buf)
    /\ last.value = 16909060
    /\ buf[last.off + 1] = 4 /\ buf[last.off + 4] = 1 /\ buf[last.off + 8] = 0

\* ------------------------------------------------------------------------
\* pager/file.rs.  The backing file is held by its length and what open can
\* touch of its contents:
\*   exists  the path names a file
\*   hi, lo  the number of whole pages is hi * 2^32 + lo  (a u64 quotient;
\*           lo is what `as u32` keeps of it)
\*   rem     length mod PAGE_SIZE
\*   head    the byte the first page is filled with, -1 for a file of length 0
\*   writes  number of write calls made on the file
\* In this part of the model buf holds the file and kept the FilePager.
\* ------------------------------------------------------------------------
MaxPagerOps == 3

file == buf

pager == kept

NoPager == [open |-> FALSE]

FilePager(next_pid) == [open |-> TRUE, freelist |-> <<>>, next_pid |-> next_pid]

\* OpenOptions::new().read(true).write(true).create(true).open(path)
create(f) == [f EXCEPT !.exists = TRUE]

\* (mutant) every length is taken as page-aligned
misaligned_never(f) == FALSE

\* len % (PAGE_SIZE as u64) != 0
misaligned(f) == f.rem # 0

\* (len / PAGE_SIZE as u64) as u32
pages_as_u32(f) == f.lo

\* (mutant) the meta page is not written
write_zero_page_skipped(f) == f

\* file.write_all(&[0u8; PAGE_SIZE]) on a file just opened: at offset 0
write_zero_page(f) ==
    [f EXCEPT !.head = 0,
              !.lo = IF f.hi = 0 /\ f.lo = 0 THEN 1 ELSE f.lo,
              !.rem = IF f.hi = 0 /\ f.lo = 0 THEN 0 ELSE f.rem,
              !.writes = f.writes + 1]

\* FilePager::open
open(f) ==
    LET f1 == create(f)
        pages == pages_as_u32(f1)
    IN  IF misaligned(f1)
        THEN [res |-> "Corruption", file |-> f1, pager |-> NoPager, ret |-> NoRet]
        ELSE IF pages = 0
        THEN [res |-> "Ok", file |-> write_zero_page(f1), pager |-> FilePager(1),
              ret |-> NoRet]
        ELSE [res |-> "Ok", file |-> f1, pager |-> FilePager(pages), ret |-> NoRet]

\* FilePager::num_pages: len / PAGE_SIZE as a u64
num_pages(p, f) ==
    [res |-> "Ok", file |-> f, pager |-> p,
     ret |-> [none |-> FALSE, hi |-> f.hi, lo |-> f.lo]]

\* FilePager::alloc_page: todo!()
alloc_page(p, f) == [res |-> "Panic", file |-> f, pager |-> p, ret |-> NoRet]

\* FilePager::free_page: todo!()
free_page(p, f, pid) == [res |-> "Panic", file |-> f, pager |-> p, ret |-> NoRet]

PagerFileLens ==
    [hi : {0, 1}, lo : {0, 1, 2, 5}, rem : {0, 1, 4095}]

PagerFiles ==
    {[exists |-> FALSE, hi |-> 0, lo |-> 0, rem |-> 0, head |-> -1, writes |-> 0]}
    \cup {[exists |-> TRUE, hi |-> l.hi, lo |-> l.lo, rem |-> l.rem,
           head |-> IF l.hi = 0 /\ l.lo = 0 /\ l.rem = 0 THEN -1 ELSE h,
           writes |-> 0] : l \in PagerFileLens, h \in {0, 171}}

PagerPageIds == {0, 1, 2}

PagerCall(op, id, r) ==
    [op |-> op, id |-> id, res |-> r.res, ret |-> r.ret,
     pre |-> [file |-> file, pager |-> pager]]

PagerInit ==
    /\ file \in PagerFiles
    /\ pager = NoPager
    /\ last = [op |-> "none", id |-> 0, res |-> "Ok", ret |-> NoRet,
               pre |-> [file |-> file, pager |-> pager]]
    /\ nops = 0

PagerStep(op, id, r) ==
    /\ file' = r.file
    /\ pager' = r.pager
    /\ last' = PagerCall(op, id, r)
    /\ nops' = nops + 1

PagerOpen ==
    /\ nops < MaxPagerOps /\ ~pager.open
    /\ PagerStep("open", 0, open(file))

PagerNumPages ==
    /\ nops < MaxPagerOps /\ pager.open
    /\ PagerStep("num_pages", 0, num_pages(pager, file))

PagerAllocPage ==
    /\ nops < MaxPagerOps /\ pager.open
    /\ PagerStep("alloc_page", 0, alloc_page(pager, file))

PagerFreePage ==
    /\ nops < MaxPagerOps /\ pager.open
    /\ \E pid \in PagerPageIds : PagerStep("free_page", pid, free_page(pager, file, pid))

PagerNext == PagerOpen \/ PagerNumPages \/ PagerAllocPage \/ PagerFreePage

SpecPager == PagerInit /\ [][PagerNext]_vars

\* The file's length and contents are those of g.
SameFile(f, g) ==
    /\ f.hi = g.hi /\ f.lo = g.lo /\ f.rem = g.rem
    /\ f.head = g.head

\* C21: open on a file whose length is not a multiple of 4096 fails with
\* Corruption and does not write to the file.
PagerAlignment ==
    (last.op = "open" /\ last.pre.file.rem # 0) =>
        /\ last.res = "Corruption"
        /\ ~pager.open
        /\ SameFile(file, last.pre.file)
        /\ file.writes = last.pre.file.writes
        /\ file.exists

\* open refused a file of two pages and one byte.
MisalignedRefusedReached ==
    /\ last.op = "open" /\ last.res = "Corruption"
    /\ file.hi = 0 /\ file.lo = 2 /\ file.rem = 1
    /\ file.head = 171

\* C22: open on an empty or absent file writes exactly one zeroed page at
\* offset 0 before returning; after it num_pages() is 1, the freelist is
\* empty and the next allocatable id is 1.
PagerOpenEmpty ==
    (last.op = "open" /\ last.pre.file.hi = 0 /\ last.pre.file.lo = 0
        /\ last.pre.file.rem = 0) =>
            /\ last.res = "Ok"
            /\ file.exists
            /\ file.writes = last.pre.file.writes + 1
            /\ file.head = 0
            /\ file.hi = 0 /\ file.lo = 1 /\ file.rem = 0
            /\ num_pages(pager, file).ret = [none |-> FALSE, hi |-> 0, lo |-> 1]
            /\ pager.open
            /\ pager.freelist = <<>>
            /\ pager.next_pid = 1

\* open created the file that was absent.
AbsentFileOpenedReached ==
    /\ last.op = "open" /\ last.res = "Ok"
    /\ ~last.pre.file.exists
    /\ file.exists /\ file.lo = 1 /\ file.writes = 1
    /\ pager.open /\ pager.next_pid = 1

\* The page ids on a freelist.
Freed(p) == {p.freelist[i] : i \in 1..Len(p.freelist)}

\* C23: alloc_page returns an id taken from the freelist whenever the
\* freelist is non-empty, removing it and not growing the file; only when the
\* freelist is empty does it return the next id, which then goes up by one,
\* and grow the file by one zeroed page.
AllocReuseBeforeGrowth ==
    (last.op = "alloc_page") =>
        /\ last.res = "Ok"
        /\ IF last.pre.pager.freelist # <<>>
           THEN /\ last.ret.pid \in Freed(last.pre.pager)
                /\ Len(pager.freelist) = Len(last.pre.pager.freelist) - 1
                /\ pager.next_pid = last.pre.pager.next_pid
                /\ SameFile(file, last.pre.file)
           ELSE /\ last.ret.pid = last.pre.pager.next_pid
                /\ pager.next_pid = last.pre.pager.next_pid + 1
                /\ file.hi = last.pre.file.hi
                /\ file.lo = last.pre.file.lo + 1
                /\ file.rem = 0

PageCount(f) == [hi |-> f.hi, lo |-> f.lo]
AsU64(pid) == [hi |-> 0, lo |-> pid]

\* C25: open on a non-empty page-aligned file of any length, page counts
\* beyond 32 bits included, sets the next allocatable id to file_length /
\* PAGE_SIZE and leaves the file's pages as they were.
PagerOpenNonEmpty ==
    (last.op = "open" /\ last.pre.file.rem = 0
        /\ PageCount(last.pre.file) # AsU64(0)) =>
            /\ last.res = "Ok"
            /\ pager.open
            /\ AsU64(pager.next_pid) = PageCount(last.pre.file)
            /\ SameFile(file, last.pre.file)
            /\ file.writes = last.pre.file.writes

\* The page-level HAS_FREE_SLOTS bit of a flags word.
HasFree(f) == BitAnd(f, FLAG_HAS_FREE_SLOTS) # 0

\* C26: an insert that reuses a tombstone, the last one included, leaves
\* HAS_FREE_SLOTS set; the flag is cleared only by an insert whose tombstone
\* scan finds no DEAD slot, and that insert then allocates the new slot id
\* slot_count.
LazyFlagClearing ==
    /\ (last.op = "insert" /\ last.res = "Ok" /\ last.ret \in last.pre.dead) =>
            HasFree(flags(buf))
    /\ (HasFree(last.pre.flags) /\ ~HasFree(flags(buf))) =>
            /\ last.op = "insert"
            /\ last.pre.dead = {}
            /\ last.res = "Ok"
            /\ last.ret = last.pre.slot_count
            /\ slot_count(buf) = last.pre.slot_count + 1

\* C27: a successful update(id, data) with data.len() <= old_len returns
\* false, keeps the slot's offset and flags, sets its len to data.len(),
\* writes data at [offset, offset + data.len()), sets every byte of
\* [offset + data.len(), offset + old_len) to 0 and changes no other byte.
InPlaceUpdateFrame ==
    [][(last'.op = "update" /\ last'.res = "Ok"
            /\ last'.data.len <= read_slot(buf, last'.id).len) =>
            LET s == read_slot(buf, last'.id)
                n == last'.data.len
                entry == slot_off(last'.id)
            IN  /\ last'.ret = FALSE
                /\ read_slot(buf', last'.id) = [s EXCEPT !.len = n]
                /\ buf' = SubSeq(buf, 1, entry + OFF_SLOT_LEN)
                          \o <<n % 256, n \div 256>>
                          \o SubSeq(buf, entry + OFF_SLOT_LEN + 3, s.offset)
                          \o Bytes(last'.data)
                          \o [i \in 1..(s.len - n) |-> 0]
                          \o SubSeq(buf, s.offset + s.len + 1, PAGE_SIZE)
      ]_vars

\* A three-byte tuple was emptied in place: its bytes are zero, its slot
\* keeps the offset.
ShrunkInPlaceReached ==
    /\ last.op = "update" /\ last.res = "Ok" /\ last.ret = FALSE
    /\ last.pre.slot.len = 3 /\ last.data.len = 0
    /\ read_slot(buf, last.id).offset = last.pre.slot.offset
    /\ read_slot(buf, last.id).len = 0
    /\ \A i \in 1..3 : buf[last.pre.slot.offset + i] = 0

\* C28: starting from init, after any sequence of insert, update and delete,
\* if any slot with id < slot_count is DEAD then HAS_FREE_SLOTS is set.
FreeFlagCoversTombstones ==
    (\E j \in 0..(slot_count(buf) - 1) : MarkedDead(buf, j)) => HasFree(flags(buf))

\* An insert reused one tombstone while another remained.
TombstoneLeftReached ==
    /\ last.op = "insert" /\ last.res = "Ok"
    /\ last.ret \in last.pre.dead
    /\ \E j \in 0..(slot_count(buf) - 1) : MarkedDead(buf, j)
    /\ HasFree(flags(buf))

\* C29: when HAS_FREE_SLOTS is set and at least one slot is DEAD, a
\* successful insert returns the smallest DEAD slot id and writes that slot
\* with flags = 0, whatever flag bits it carried.
TombstoneChoice ==
    [][(last'.op = "insert" /\ last'.res = "Ok" /\ HeaderHolds(buf)
            /\ HasFree(flags(buf))
            /\ \E j \in 0..(slot_count(buf) - 1) : MarkedDead(buf, j)) =>
            /\ last'.ret < slot_count(buf)
            /\ MarkedDead(buf, last'.ret)
            /\ \A j \in 0..(last'.ret - 1) : ~MarkedDead(buf, j)
            /\ read_slot(buf', last'.ret).flags = 0
            /\ slot_count(buf') = slot_count(buf)
      ]_vars

\* An insert reused slot 1 of a two-slot page whose slot 0 is live.
SecondSlotReusedReached ==
    /\ last.op = "insert" /\ last.res = "Ok"
    /\ last.ret = 1
    /\ slot_count(buf) = 2
    /\ ~MarkedDead(buf, 0)
    /\ read_slot(buf, 1).flags = 0
    /\ read_slot(buf, 1).len = 3

\* C30: across any sequence of insert, update and delete after init, upper
\* never increases, lower never decreases and free_space() never grows: the
\* bytes of deleted, shrunk or relocated tuples are not given back.
FreeSpaceNeverGrows ==
    /\ upper(buf) <= last.pre.upper
    /\ lower(buf) >= last.pre.lower
    /\ free_space(buf).res = "Ok"
    /\ free_space(buf).ret <= last.pre.free

\* A 4071-byte tuple was deleted and the free space is what it was.
DeleteGaveNothingBackReached ==
    /\ last.op = "delete" /\ last.res = "Ok"
    /\ last.pre.slot.len = 4071
    /\ MarkedDead(buf, last.id)
    /\ free_space(buf).ret = last.pre.free
    /\ upper(buf) = last.pre.slot.offset

\* C31: on a page reachable from init, insert(data) with data.len() + (0 if
\* a DEAD slot exists, else 6) <= free_space() returns Ok, and an insert that
\* returns Ok fitted; so an insert that reuses a tombstone succeeds with
\* free_space() = data.len(), and the page can be filled to free_space() = 0.
InsertFits ==
    (last.op = "insert") =>
        /\ (Required(last) <= last.pre.free) => last.res = "Ok"
        /\ (last.res = "Ok") =>
                /\ Required(last) <= last.pre.free
                /\ free_space(buf).ret = last.pre.free - Required(last)

\* A tombstone was reused with exactly data.len() = 3 bytes free: the page
\* is full.
FilledByReuseReached ==
    /\ last.op = "insert" /\ last.res = "Ok"
    /\ last.ret \in last.pre.dead
    /\ last.data.len = 3 /\ last.pre.free = 3
    /\ free_space(buf).ret = 0
    /\ GetReturns(buf, last.ret, last.data)

\* C32: after update(id, s) has shrunk a tuple of length L in place to
\* len(s) < L, an update(id, d) with len(s) < len(d) <= L does not go back
\* into the original region: it fails with NoSpace when free_space() <
\* len(d), and otherwise relocates the tuple below upper, returns true and
\* takes len(d) bytes of free space.
ShrinkForgetsCapacity ==
    [][(/\ last.op = "update" /\ last.res = "Ok" /\ last.ret = FALSE
        /\ last.data.len < last.pre.slot.len
        /\ last'.op = "update" /\ last'.id = last.id
        /\ last.data.len < last'.data.len
        /\ last'.data.len <= last.pre.slot.len) =>
            LET n == last'.data.len
            IN  IF free_space(buf).ret < n
                THEN last'.res = "NoSpace" /\ buf' = buf
                ELSE /\ last'.res = "Ok" /\ last'.ret = TRUE
                     /\ read_slot(buf', last'.id).offset = upper(buf) - n
                     /\ read_slot(buf', last'.id).offset + n <= last.pre.slot.offset
                     /\ upper(buf') = upper(buf) - n
                     /\ free_space(buf').ret = free_space(buf).ret - n
                     /\ GetReturns(buf', last'.id, last'.data)
      ]_vars

\* A tuple shrunk from 3 bytes to none was given 3 bytes again and moved.
RegrownElsewhereReached ==
    /\ last.op = "update" /\ last.res = "Ok" /\ last.ret = TRUE
    /\ last.data.len = 3
    /\ last.pre.slot.len = 0
    /\ last.pre.slot.offset + 3 <= PAGE_SIZE
    /\ \A i \in 1..3 : buf[last.pre.slot.offset + i] = 0
    /\ last.pre.slot.offset > upper(buf) + 3
    /\ read_slot(buf, last.id).offset = upper(buf)

\* C33: a successful update(id, data), in place or moving, leaves lower,
\* slot_count, the page flags (HAS_FREE_SLOTS too), the reserved field, the
\* slot's own flags and every other slot entry unchanged; upper changes only
\* when the tuple moves; only the slot's offset and len, upper and bytes
\* above lower change.
UpdateFrame ==
    [][(last'.op = "update" /\ last'.res = "Ok") =>
            LET entry == slot_off(last'.id)
            IN  /\ lower(buf') = lower(buf)
                /\ slot_count(buf') = slot_count(buf)
                /\ flags(buf') = flags(buf)
                /\ reserved(buf') = reserved(buf)
                /\ read_slot(buf', last'.id).flags = read_slot(buf, last'.id).flags
                /\ (last'.ret = FALSE) => upper(buf') = upper(buf)
                /\ SubSeq(buf', SLOTTED_HEADER_SIZE + 1, entry)
                        = SubSeq(buf, SLOTTED_HEADER_SIZE + 1, entry)
                /\ SubSeq(buf', entry + OFF_SLOT_FLAGS + 1, lower(buf))
                        = SubSeq(buf, entry + OFF_SLOT_FLAGS + 1, lower(buf))
      ]_vars

\* A tuple was moved by update on a page that has a tombstone and
\* HAS_FREE_SLOTS set.
MovedWithFreeFlagReached ==
    /\ last.op = "update" /\ last.res = "Ok" /\ last.ret = TRUE
    /\ HasFree(last.pre.flags) /\ HasFree(flags(buf))
    /\ last.pre.dead # {}
    /\ upper(buf) < last.pre.upper

====
